---- MODULE Spec2Model ----
(***************************************************************************)
(* Model of the ayysee compiler's code generator (crates/compiler): the    *)
(* two-pass lowering of a Program AST to Stationeers MIPS instructions,    *)
(* followed by the execution of the emitted instructions on the target     *)
(* processor as documented in crates/mips.                                 *)
(***************************************************************************)
EXTENDS Integers, Sequences, FiniteSets, TLC

(***************************************************************************)
(* Bounds of the model.                                                    *)
(***************************************************************************)
\* longest parameter list of a generated Function
MaxParams == 5
\* longest argument list of a generated FunctionCall
MaxArgs == 5
\* number of instructions the target processor executes before the run is cut
MaxExec == 64
\* number of slots of the target's stack memory that the model keeps
StackSize == 12
\* HashMap iteration orders tried for one map
MaxOrders == 3

(***************************************************************************)
(* Target-ISA model (crates/mips).                                         *)
(***************************************************************************)
\* RegisterOrNumber::Register
Reg(r) == [k |-> "reg", r |-> r, n |-> 0]
\* RegisterOrNumber::Number(Number::Int)
Num(n) == [k |-> "num", r |-> "", n |-> n]
\* RegisterOrNumber::Number(Number::Float); the payload is kept as an integer
Flt(n) == [k |-> "float", r |-> "", n |-> n]

Push(a) == [op |-> "push", a |-> a]
Pop(r) == [op |-> "pop", register |-> r]
Peek(r) == [op |-> "peek", register |-> r]
Add(r, a, b) == [op |-> "add", register |-> r, a |-> a, b |-> b]
Subtract(r, a, b) == [op |-> "sub", register |-> r, a |-> a, b |-> b]
Multiply(r, a, b) == [op |-> "mul", register |-> r, a |-> a, b |-> b]
Divide(r, a, b) == [op |-> "div", register |-> r, a |-> a, b |-> b]
BranchEqual(a, b, c) == [op |-> "beq", a |-> a, b |-> b, c |-> c]
BranchGreaterThan(a, b, c) == [op |-> "bgt", a |-> a, b |-> b, c |-> c]
BranchLessThan(a, b, c) == [op |-> "blt", a |-> a, b |-> b, c |-> c]
BranchEqualZero(a, b) == [op |-> "beqz", a |-> a, b |-> b]
Jump(line) == [op |-> "j", a |-> Num(line)]
JumpAndLink(line) == [op |-> "jal", a |-> Num(line)]
Label(name) == [op |-> "label", name |-> name]
Comment(text) == [op |-> "comment", comment |-> text]
AliasInstr(name, target) == [op |-> "alias", name |-> name, target |-> target]
Yield == [op |-> "yield"]
LoadDeviceVariable(d, v, r) == [op |-> "l", device |-> d, variable |-> v, register |-> r]
StoreDeviceVariable(d, v, r) == [op |-> "s", device |-> d, variable |-> v, register |-> r]

\* Device::from_str accepts exactly these literals
DeviceLiterals == {"d0", "d1", "d2", "d3", "d4", "d5"}
\* DeviceVariable::from_str accepts a closed set of names; the ones the model uses
DeviceVariables == {"Setting", "Temperature", "On"}
\* Register::from(i as u8) for the argument registers
RegisterFromU8(i) == "r" \o ToString(i)

(***************************************************************************)
(* AST (crates/parser/src/ast.rs).                                         *)
(***************************************************************************)
\* Value::Integer(i64): hi is the upper 32 bits, lo the lower 32 bits read
\* as an i32, so that the value fits an i32 iff hi is lo's sign extension.
Integer(hi, lo) == [t |-> "Integer", hi |-> hi, lo |-> lo]
Float(f) == [t |-> "Float", hi |-> 0, lo |-> f]
Boolean(b) == [t |-> "Boolean", hi |-> 0, lo |-> IF b THEN 1 ELSE 0]
\* an i64 that fits an i32
IntV(i) == Integer(IF i < 0 THEN -1 ELSE 0, i)

ConstantE(v) == [e |-> "Constant", value |-> v]
IdentifierE(name) == [e |-> "Identifier", identifier |-> name]
BinaryOp(l, op, r) == [e |-> "BinaryOp", left |-> l, op |-> op, right |-> r]
UnaryOp(op, x) == [e |-> "UnaryOp", op |-> op, operand |-> x]

Assignment(id, x) == [s |-> "Assignment", identifier |-> id, expression |-> x]
Definition(id, x) == [s |-> "Definition", identifier |-> id, expression |-> x]
Alias(id, alias) == [s |-> "Alias", identifier |-> id, alias |-> alias]
ConstantS(id, v) == [s |-> "Constant", identifier |-> id, value |-> v]
Function(id, ps, body) == [s |-> "Function", identifier |-> id, parameters |-> ps, body |-> body]
FunctionCall(id, args) == [s |-> "FunctionCall", identifier |-> id, arguments |-> args]
Block(stmts) == [s |-> "Block", statements |-> stmts]
Loop(body) == [s |-> "Loop", body |-> body]
If(c, body) == [s |-> "If", condition |-> c, body |-> body]
IfElse(c, body, eb) == [s |-> "IfElse", condition |-> c, body |-> body, else_body |-> eb]
DeviceRead(d, v, l) == [s |-> "DeviceRead", device |-> d, device_variable |-> v, local |-> l]
DeviceWrite(x, d, v) == [s |-> "DeviceWrite", value |-> x, device |-> d, device_variable |-> v]
YieldS == [s |-> "Yield"]

(***************************************************************************)
(* Compiler types (crates/compiler/src/lib.rs, error.rs).                  *)
(***************************************************************************)
StackLoc(offset) == [loc |-> "Stack", offset |-> offset]
RegisterLoc(r) == [loc |-> "Register", register |-> r]

NoError == [kind |-> "none", name |-> ""]
UndefinedVariable(name) == [kind |-> "UndefinedVariable", name |-> name]
UndefinedFunction(name) == [kind |-> "UndefinedFunction", name |-> name]
UndefinedMain == [kind |-> "UndefinedMain", name |-> ""]
ParseError(name) == [kind |-> "ParseError", name |-> name]
\* todo!(), unreachable!() and Option::unwrap() on None abort the process
Panic(what) == [kind |-> "panic", name |-> what]

\* the empty HashMap
EmptyMap == [x \in {} |-> 0]
\* HashMap::insert
Insert(m, key, v) == (key :> v) @@ m
\* HashMap::remove
Remove(m, key) == [x \in (DOMAIN m) \ {key} |-> m[x]]

(***************************************************************************)
(* Expression lowering (crates/compiler/src/expr.rs).                      *)
(***************************************************************************)
ExprOk(ins) == [ins |-> ins, err |-> NoError]
\* a lowering that goes on after an error or a todo!()
ExprErr_Swallowed(ins, err) == [ins |-> ins, err |-> NoError]
ExprErr(ins, err) == [ins |-> ins, err |-> err]

UnimplementedOps == {"Conj", "Disj", "NotEquals", "GreaterEquals", "LowerEquals"}

\* a read that leaves sp at the slot of the local
ReadLocation_NoRestore(location) ==
    IF location.loc = "Register"
    THEN <<Push(Reg(location.register))>>
    ELSE <<Subtract("sp", Reg("sp"), Num(-(location.offset))), Peek("r0"), Push(Reg("r0"))>>

\* the read of a local from its Location (expr.rs 33-75)
ReadLocation(location) ==
    IF location.loc = "Register"
    THEN <<Push(Reg(location.register))>>
    ELSE LET offset == -(location.offset)
         IN IF offset # 1
            THEN <<Subtract("sp", Reg("sp"), Num(offset)), Peek("r0"),
                   Add("sp", Reg("sp"), Num(offset)), Push(Reg("r0"))>>
            ELSE <<Comment("retieve"), Peek("r0"), Push(Reg("r0"))>>

\* the push of a constant (expr.rs 81-100): i64 as i32 keeps the low 32 bits
ConstantPush(value) ==
    CASE value.t = "Integer" -> Push(Num(value.lo))
      [] value.t = "Float" -> Push(Flt(value.lo))
      [] value.t = "Boolean" -> Push(Num(IF value.lo = 1 THEN 1 ELSE 0))

\* the three instructions of a comparison (expr.rs 144-267); len is
\* codegen.instructions.len() before the branch is added
Comparison(branch, len, pass) ==
    IF pass = "Second"
    THEN <<[op |-> branch, a |-> Reg("r0"), b |-> Reg("r1"), c |-> Num(len + 2)],
           Add("r0", Num(0), Num(0)),
           Add("r0", Num(0), Num(1))>>
    ELSE <<[op |-> branch, a |-> Reg("r0"), b |-> Reg("r1"), c |-> Num(0)],
           Add("r0", Num(0), Num(0)),
           Add("r0", Num(0), Num(0))>>

\* the instructions of an implemented binary operator (expr.rs 113-269)
Operation(op, len, pass) ==
    CASE op = "Add" -> <<Add("r0", Reg("r0"), Reg("r1"))>>
      [] op = "Sub" -> <<Subtract("r0", Reg("r0"), Reg("r1"))>>
      [] op = "Mul" -> <<Multiply("r0", Reg("r0"), Reg("r1"))>>
      [] op = "Div" -> <<Divide("r0", Reg("r0"), Reg("r1"))>>
      [] op = "Equals" -> Comparison("beq", len, pass)
      [] op = "Greater" -> Comparison("bgt", len, pass)
      [] op = "Lower" -> Comparison("blt", len, pass)

\* a lookup that takes a name missing from locals for a local holding 0
LowerIdentifier_Unchecked(id, ins, locs) ==
    IF id \in DOMAIN locs
    THEN ExprOk(ins \o ReadLocation(locs[id]))
    ELSE ExprOk(Append(ins, Push(Num(0))))

\* the lookup of an identifier in locals (expr.rs 32-79)
LowerIdentifier(id, ins, locs) ==
    IF id \in DOMAIN locs
    THEN ExprOk(ins \o ReadLocation(locs[id]))
    ELSE ExprErr(ins, UndefinedVariable(id))

\* generate_expr: the instruction buffer after lowering expr, and the error
\* the lowering ended with
RECURSIVE generate_expr(_, _, _, _, _)
generate_expr(expr, ins, consts, locs, pass) ==
    CASE expr.e = "Identifier" ->
            LET i1 == Append(ins, Comment("expr identifier"))
                id == expr.identifier
            IN IF id \in DOMAIN consts
               THEN generate_expr(ConstantE(consts[id]), i1, consts, locs, pass)
               ELSE LowerIdentifier(id, i1, locs)
      [] expr.e = "Constant" ->
            ExprOk(Append(Append(ins, Comment("expr constant")), ConstantPush(expr.value)))
      [] expr.e = "BinaryOp" ->
            LET i1 == Append(ins, Comment("expr binary op"))
                l == generate_expr(expr.left, i1, consts, locs, pass)
            IN IF l.err # NoError THEN l
               ELSE LET r == generate_expr(expr.right, l.ins, consts, locs, pass)
                    IN IF r.err # NoError THEN r
                       ELSE LET popped == r.ins \o <<Pop("r1"), Pop("r0")>>
                            IN IF expr.op \in UnimplementedOps
                               THEN ExprErr(popped, Panic("todo"))
                               ELSE ExprOk(popped \o Operation(expr.op, Len(popped), pass)
                                                  \o <<Push(Reg("r0"))>>)
      [] expr.e = "UnaryOp" ->
            ExprErr(Append(ins, Comment("expr unary op")), Panic("todo"))

(***************************************************************************)
(* Code buffer (crates/compiler/src/codegen.rs).                           *)
(***************************************************************************)
\* CodeGenerator::add_comment: annotates the last instruction
add_comment(cms, ins, text) == Insert(cms, Len(ins) - 1, text)

\* CodeGenerator::add_label: the line recorded is the one after the marker
add_label_instructions(ins, label) == Append(ins, Label(label))
add_label_labels(lbls, ins, label) == Insert(lbls, label, Len(ins) + 1)

\* CodeGenerator::get_code: every instruction with the comment of its line
get_code(ins, cms) ==
    [i \in 1..Len(ins) |->
        [instruction |-> ins[i],
         comment |-> IF (i - 1) \in DOMAIN cms THEN cms[i - 1] ELSE ""]]

\* the keys of a map in ascending order
RECURSIVE Ascending(_)
Ascending(keys) ==
    IF keys = {} THEN <<>>
    ELSE LET least == CHOOSE k \in keys : \A j \in keys : k <= j
         IN <<least>> \o Ascending(keys \ {least})

Reverse(seq) == [i \in 1..Len(seq) |-> seq[Len(seq) + 1 - i]]
Rotate(seq, k) == [i \in 1..Len(seq) |-> seq[((i - 1 + k) % Len(seq)) + 1]]

\* orders in which HashMap::iter can visit the keys of a map: the order is
\* unspecified and differs from one process to the next
IterationOrders(cms) ==
    {Rotate(Ascending(DOMAIN cms), k) : k \in 0..(MaxOrders - 1)}
    \cup {Reverse(Ascending(DOMAIN cms))}

\* a comments vector filled in the order of the iteration, not by line
RECURSIVE CommentsVector_ByPosition(_, _, _)
CommentsVector_ByPosition(vec, cms, order) ==
    IF order = <<>> THEN vec
    ELSE CommentsVector_ByPosition(
            [vec EXCEPT ![Len(vec) + 1 - Len(order)] = cms[Head(order)]],
            cms, Tail(order))

\* the loop of get_code over self.comments.iter(): comments[line] = Some(comment)
RECURSIVE CommentsVector(_, _, _)
CommentsVector(vec, cms, order) ==
    IF order = <<>> THEN vec
    ELSE CommentsVector([vec EXCEPT ![Head(order) + 1] = cms[Head(order)]],
                        cms, Tail(order))

\* CodeGenerator::get_code when the map is visited in the given order
get_code_iterating(ins, cms, order) ==
    LET vec == CommentsVector([i \in 1..Len(ins) |-> ""], cms, order)
    IN [i \in 1..Len(ins) |-> [instruction |-> ins[i], comment |-> vec[i]]]

(***************************************************************************)
(* Scope model (crates/compiler/src/stack.rs) and helpers of statement.rs. *)
(***************************************************************************)
\* Stack::new_loop / Stack::new_if: the minted names
LoopName(n) == "loop_" \o ToString(n)
IfName(n) == "if_" \o ToString(n)
EndLabel(if_label) == if_label \o "_end"
ElseLabel(if_label) == if_label \o "_else"

\* an allocate_local_at that records nothing
allocate_local_at_Forget(locs, rsp, name, location) == locs

\* Stack::allocate_local_at
allocate_local_at(locs, rsp, name, location) ==
    IF location.loc = "Stack"
    THEN Insert(locs, name, StackLoc(rsp + location.offset))
    ELSE Insert(locs, name, RegisterLoc(location.register))

\* assign_variable! (util.rs 5-41)
assign_variable(location, value) ==
    IF location.loc = "Stack"
    THEN LET offset == -(location.offset)
         IN <<Subtract("sp", Reg("sp"), Num(offset)), Push(Reg("r0")),
              Add("sp", Reg("sp"), Num(offset))>>
    ELSE <<Add(location.register, Reg(value), Num(0))>>

\* function_return! (util.rs 72-85)
function_return == BranchEqualZero(Num(0), Reg("ra"))

\* Vec::contains guarded push of find_locals
PushUnique(list, id) ==
    IF \E i \in 1..Len(list) : list[i] = id THEN list ELSE Append(list, id)

\* the identifiers a FunctionCall contributes to find_locals
RECURSIVE ArgumentLocals(_, _)
ArgumentLocals(args, list) ==
    IF args = <<>> THEN list
    ELSE ArgumentLocals(Tail(args),
            IF Head(args).e = "Identifier"
            THEN PushUnique(list, Head(args).identifier) ELSE list)

\* find_locals (statement.rs 448-474); a Block is the sequence of its statements
RECURSIVE find_locals(_, _)
find_locals(stmts, list) ==
    IF stmts = <<>> THEN list
    ELSE LET st == Head(stmts)
             l1 == CASE st.s = "Definition" -> PushUnique(list, st.identifier)
                     [] st.s = "Block" -> find_locals(st.statements, list)
                     [] st.s = "FunctionCall" -> ArgumentLocals(st.arguments, list)
                     [] OTHER -> list
         IN find_locals(Tail(stmts), l1)

(***************************************************************************)
(* State.                                                                  *)
(***************************************************************************)
VARIABLES
    program,          \* the Program handed to generate_program
    pass,             \* Pass::First or Pass::Second
    todo,             \* what is left of the traversal: the pending statements
                      \* and the pending second halves of their handlers
    outcome,          \* "running", then "Ok", "Err" or "panic"
    error,            \* the Error returned, or what aborted the process
    output,           \* the text returned by generate_program, line by line
    instructions,     \* CodeGenerator.instructions
    comments,         \* CodeGenerator.comments
    labels,           \* CodeGenerator.labels
    devices,          \* CodeGenerator.devices
    constants,        \* CodeGenerator.constants
    rsp_offset,       \* Stack.rsp_offset
    locals,           \* Stack.locals
    saved_registers,  \* Stack.saved_registers
    loops,            \* Stack.loops
    loop_counter,     \* Stack.loop_counter
    if_counter,       \* Stack.if_counter
    first_len,        \* history: instructions.len() at the end of pass 1
    first_labels,     \* history: labels at the end of pass 1
    calls,            \* history: one record per lowered FunctionCall
    defined,          \* history: the functions lowered so far in this pass
    frames,           \* history: the Function and Loop handlers that are open
    returns,          \* history: one record per Function handler that returned
    sp_tracked,       \* history: the lines of the pushes and pops of this pass
                      \* that followed an update of rsp_offset
    device_io,        \* history: one record per lowered DeviceStatement
    jumps,            \* history: one record per branch or jump to a minted label
    scopes,           \* history: the names in locals and in constants after
                      \* every step of the traversal, pass by pass
    mpc,              \* target processor: line being executed
    regs,             \* target processor: registers
    mem,              \* target processor: stack memory
    msteps,           \* target processor: instructions executed so far
    mstatus,          \* target processor: "running" or "halted"
    cmp_in,           \* history: operands of the last comparison branch executed
    saved_in,         \* history: registers at the jal of every call not yet restored
    slot_io           \* history: the slot of the last store to a local on the
                      \* stack, and the slot of the read of it that followed

codegenVars == <<instructions, comments, labels, devices, constants>>
stackVars == <<rsp_offset, locals, saved_registers, loops, loop_counter, if_counter>>
historyVars == <<first_len, first_labels, calls, defined>>
traceVars == <<frames, returns, sp_tracked, device_io, jumps>>
machineVars == <<mpc, regs, mem, msteps, mstatus, cmp_in, saved_in, slot_io>>
vars == <<program, pass, todo, outcome, error, output, codegenVars, stackVars,
          historyVars, traceVars, scopes, machineVars>>

\* the entries of todo
StatementTask(st) == [k |-> "Statement", statement |-> st]
FunctionEpilogueTask(ls, ps) == [k |-> "FunctionEpilogue", locals |-> ls, parameters |-> ps]
LoopEndTask(label) == [k |-> "LoopEnd", loop_label |-> label]
IfEndTask(label) == [k |-> "IfEnd", end_label |-> label]
IfElseMidTask(el, en, eb) ==
    [k |-> "IfElseMid", else_label |-> el, end_label |-> en, else_body |-> eb]

Tasks(stmts) == [i \in 1..Len(stmts) |-> StatementTask(stmts[i])]

\* generate_statement is about to be called on a statement of kind s
Lowering(s) ==
    /\ outcome = "running"
    /\ todo # <<>>
    /\ Head(todo).k = "Statement"
    /\ Head(todo).statement.s = s

\* the second half of a handler is next
Resuming(k) ==
    /\ outcome = "running"
    /\ todo # <<>>
    /\ Head(todo).k = k

\* history: scopes after the step being taken
ScopesAfter ==
    Append(scopes, [pass |-> pass, names |-> DOMAIN locals' \cup DOMAIN constants'])

\* an Err propagated by `?` up to generate_program's caller, or a panic;
\* the code buffer and the scope model are dropped with it
Fail(err, ins) ==
    /\ outcome' = IF err.kind = "panic" THEN "panic" ELSE "Err"
    /\ error' = err
    /\ todo' = <<>>
    /\ instructions' = ins
    /\ UNCHANGED <<program, pass, output, comments, labels, devices, constants,
                   stackVars, historyVars, traceVars, machineVars>>
    /\ scopes' = ScopesAfter

\* Vec::pop
Front(seq) == IF seq = <<>> THEN seq ELSE SubSeq(seq, 1, Len(seq) - 1)

\* an open Function or Loop handler: its label, rsp_offset and loops.len()
\* when it was entered, the line add_label recorded, and its body
Frame(k, name, line, body) ==
    [k |-> k, name |-> name, entry |-> rsp_offset, depth |-> Len(loops),
     line |-> line, body |-> body]

\* a branch or jump to a minted label: the line that holds it (counted from
\* 1), the label it looks up, and for the jump of a Loop the line and the
\* depth of loops recorded when the Loop was entered
JumpRecord(kind, label, at, recorded, depth_before, depth_after) ==
    [pass |-> pass, kind |-> kind, label |-> label, at |-> at, recorded |-> recorded,
     depth_before |-> depth_before, depth_after |-> depth_after]

\* CodeGenerator::get_label
get_label_found(label) == label \in DOMAIN labels

(***************************************************************************)
(* generate_statement (crates/compiler/src/statement.rs), one action per   *)
(* statement kind; a handler that lowers a nested block continues in a     *)
(* second action once the block has been lowered.                          *)
(***************************************************************************)
AssignmentStmt ==
    /\ Lowering("Assignment")
    /\ LET st == Head(todo).statement
           i0 == Append(instructions, Comment("Assignment"))
       IN IF st.identifier \notin DOMAIN locals
          THEN Fail(UndefinedVariable(st.identifier), i0)
          ELSE LET r == generate_expr(st.expression, i0, constants, locals, pass)
               IN IF r.err # NoError
                  THEN Fail(r.err, r.ins)
                  ELSE /\ instructions' = r.ins \o <<Pop("r0")>>
                                          \o assign_variable(locals[st.identifier], "r0")
                       /\ todo' = Tail(todo)
                       /\ UNCHANGED <<program, pass, outcome, error, output, comments,
                                      labels, devices, constants, stackVars,
                                      historyVars, traceVars, machineVars>>
                       /\ scopes' = ScopesAfter

DefinitionStmt ==
    /\ Lowering("Definition")
    /\ LET st == Head(todo).statement
           i0 == Append(instructions, Comment("Definition"))
           r == generate_expr(st.expression, i0, constants, locals, pass)
       IN IF r.err # NoError
          THEN Fail(r.err, r.ins)
          ELSE /\ instructions' = r.ins
               /\ locals' = allocate_local_at(locals, rsp_offset, st.identifier, StackLoc(-1))
               /\ todo' = Tail(todo)
               /\ UNCHANGED <<program, pass, outcome, error, output, comments, labels,
                              devices, constants, rsp_offset, saved_registers, loops,
                              loop_counter, if_counter, historyVars, traceVars, machineVars>>
               /\ scopes' = ScopesAfter

\* an Alias that records the placeholder device for every name
AliasStmt_Placeholder ==
    /\ Lowering("Alias")
    /\ LET st == Head(todo).statement
       IN IF st.identifier \notin DeviceLiterals
          THEN Fail(ParseError(st.identifier), instructions)
          ELSE /\ devices' = Insert(devices, st.alias, "d0")
               /\ instructions' = Append(instructions, AliasInstr(st.alias, st.identifier))
               /\ todo' = Tail(todo)
               /\ UNCHANGED <<program, pass, outcome, error, output, comments, labels,
                              constants, stackVars, historyVars, traceVars, machineVars>>
               /\ scopes' = ScopesAfter

AliasStmt ==
    /\ Lowering("Alias")
    /\ LET st == Head(todo).statement
       IN IF st.identifier \notin DeviceLiterals
          THEN Fail(ParseError(st.identifier), instructions)
          ELSE /\ devices' = Insert(devices, st.alias, st.identifier)
               /\ instructions' = Append(instructions, AliasInstr(st.alias, st.identifier))
               /\ todo' = Tail(todo)
               /\ UNCHANGED <<program, pass, outcome, error, output, comments, labels,
                              constants, stackVars, historyVars, traceVars, machineVars>>
               /\ scopes' = ScopesAfter

ConstantStmt ==
    /\ Lowering("Constant")
    /\ LET st == Head(todo).statement
       IN /\ constants' = Insert(constants, st.identifier, st.value)
          /\ todo' = Tail(todo)
          /\ UNCHANGED <<program, pass, outcome, error, output, instructions, comments,
                         labels, devices, stackVars, historyVars, traceVars, machineVars>>
          /\ scopes' = ScopesAfter

BlockStmt ==
    /\ Lowering("Block")
    /\ todo' = Tasks(Head(todo).statement.statements) \o Tail(todo)
    /\ UNCHANGED <<program, pass, outcome, error, output, codegenVars, stackVars,
                   historyVars, traceVars, machineVars>>
    /\ scopes' = ScopesAfter

YieldStmt ==
    /\ Lowering("Yield")
    /\ instructions' = Append(instructions, Yield)
    /\ todo' = Tail(todo)
    /\ UNCHANGED <<program, pass, outcome, error, output, comments, labels, devices,
                   constants, stackVars, historyVars, traceVars, machineVars>>
    /\ scopes' = ScopesAfter

\* the parameter loop of Statement::Function (statement.rs 97-114, 143-154),
\* from parameter i on
RECURSIVE BindParameters(_, _, _, _, _, _, _)
BindParameters(i, parameters, ins, cms, locs, rsp, ps) ==
    IF i >= Len(parameters)
    THEN [ins |-> ins, cms |-> cms, locs |-> locs]
    ELSE LET parameter == parameters[i + 1]
         IN IF i < 4
            THEN LET register == RegisterFromU8(i)
                     ins1 == IF ps = "Second" THEN Append(ins, Push(Reg(register))) ELSE ins
                     cms1 == IF ps = "Second" THEN add_comment(cms, ins1, "parameter") ELSE cms
                 IN BindParameters(i + 1, parameters, ins1, cms1,
                        allocate_local_at(locs, rsp, parameter, RegisterLoc(register)),
                        rsp, ps)
            ELSE LET offset == Len(parameters) - i
                     ins1 == IF ps = "Second"
                             THEN Append(ins, Comment("parameter from stack offset"))
                             ELSE ins
                 IN BindParameters(i + 1, parameters, ins1, cms,
                        allocate_local_at(locs, rsp, parameter, StackLoc(offset)),
                        rsp, ps)

\* the "allocate locals" loop of Statement::Function (statement.rs 117-123,
\* 159-165): allocate_local_at(Stack(-1)) in pass 2, allocate_local in pass 1
RECURSIVE AllocateLocals(_, _, _, _, _, _)
AllocateLocals(found, ins, cms, locs, rsp, ps) ==
    IF found = <<>>
    THEN [ins |-> ins, cms |-> cms, locs |-> locs, rsp |-> rsp]
    ELSE LET ins1 == Append(ins, Push(Num(0)))
             cms1 == add_comment(cms, ins1, "local")
         IN IF ps = "Second"
            THEN AllocateLocals(Tail(found), ins1, cms1,
                    allocate_local_at(locs, rsp, Head(found), StackLoc(-1)), rsp, ps)
            ELSE AllocateLocals(Tail(found), ins1, cms1,
                    Insert(locs, Head(found), StackLoc(rsp + 1)), rsp + 1, ps)

\* Stack::deallocate_local applied to every name of a list
RECURSIVE DeallocateAll(_, _)
DeallocateAll(locs, names) ==
    IF names = <<>> THEN locs ELSE DeallocateAll(Remove(locs, Head(names)), Tail(names))

\* Statement::Function up to the call that lowers the body
FunctionStmt ==
    /\ Lowering("Function")
    /\ LET st == Head(todo).statement
           ins0 == add_label_instructions(instructions, st.identifier)
           cms0 == add_comment(comments, ins0, "Function")
           bound == BindParameters(0, st.parameters, ins0, cms0, locals, rsp_offset, pass)
           found == find_locals(st.body, <<>>)
           alloc == AllocateLocals(found, bound.ins, bound.cms, bound.locs, rsp_offset, pass)
       IN /\ labels' = add_label_labels(labels, instructions, st.identifier)
          /\ instructions' = alloc.ins
          /\ comments' = alloc.cms
          /\ locals' = alloc.locs
          /\ rsp_offset' = alloc.rsp
          /\ todo' = <<StatementTask(Block(st.body)),
                       FunctionEpilogueTask(found, st.parameters)>> \o Tail(todo)
          /\ defined' = defined \cup {st.identifier}
          /\ frames' = Append(frames,
                 Frame("Function", st.identifier, Len(instructions) + 1, st.body))
          /\ UNCHANGED <<program, pass, outcome, error, output, devices, constants,
                         saved_registers, loops, loop_counter, if_counter,
                         first_len, first_labels, calls, returns, sp_tracked,
                         device_io, jumps, machineVars>>
          /\ scopes' = ScopesAfter

\* Statement::Function after the body: the epilogue
FunctionEpilogue ==
    /\ Resuming("FunctionEpilogue")
    /\ LET t == Head(todo)
       IN /\ rsp_offset' = rsp_offset - Len(t.locals) - Len(t.parameters)
          /\ locals' = DeallocateAll(DeallocateAll(locals, t.locals), t.parameters)
          /\ instructions' = Append(instructions, function_return)
          /\ todo' = Tail(todo)
          /\ returns' = Append(returns,
                 [pass |-> pass, identifier |-> frames[Len(frames)].name,
                  parameters |-> t.parameters, body |-> frames[Len(frames)].body,
                  entry |-> frames[Len(frames)].entry, exit |-> rsp_offset',
                  locals_after |-> DOMAIN locals'])
          /\ frames' = Front(frames)
          /\ UNCHANGED <<program, pass, outcome, error, output, comments, labels, devices,
                         constants, saved_registers, loops, loop_counter, if_counter,
                         historyVars, sp_tracked, device_io, jumps, machineVars>>
          /\ scopes' = ScopesAfter

\* the argument loop of Statement::FunctionCall (statement.rs 191-201), from
\* argument i on; ends collects instructions.len() after each argument
RECURSIVE LowerArguments(_, _, _, _, _, _, _)
LowerArguments(i, arguments, ins, ends, consts, locs, ps) ==
    IF i >= Len(arguments)
    THEN [ins |-> ins, err |-> NoError, ends |-> ends]
    ELSE LET r == generate_expr(arguments[i + 1], ins, consts, locs, ps)
         IN IF r.err # NoError
            THEN [ins |-> r.ins, err |-> r.err, ends |-> ends]
            ELSE LET ins1 == IF i < 4
                             THEN Append(r.ins, Pop(RegisterFromU8(i)))
                             ELSE r.ins
                 IN LowerArguments(i + 1, arguments, ins1, Append(ends, Len(ins1)),
                                   consts, locs, ps)

\* the registers a call saves, in the order of Stack::save_register
SavedRegisters == <<"ra", "r4", "r5", "r6", "r7">>
\* and restores, in the order of Stack::restore_register
RestoredRegisters == <<"r7", "r6", "r5", "r4", "ra">>

SaveRegisters == [i \in 1..Len(SavedRegisters) |-> Push(Reg(SavedRegisters[i]))]
RestoreRegisters == [i \in 1..Len(RestoredRegisters) |-> Pop(RestoredRegisters[i])]

\* a loop that takes the fifth argument for a register argument
DeallocateArguments_OffByOne(n) == [i \in 1..(IF n > 5 THEN n - 5 ELSE 0) |-> Pop("r0")]

\* the "deallocate arguments" loop of Statement::FunctionCall (statement.rs 237-241)
DeallocateArguments(n) == [i \in 1..(IF n > 4 THEN n - 4 ELSE 0) |-> Pop("r0")]

\* the line a call's jal carries (statement.rs 216-223)
CallTarget(identifier, ps) == IF ps = "Second" THEN labels[identifier] ELSE 0

FunctionCallStmt ==
    /\ Lowering("FunctionCall")
    /\ LET st == Head(todo).statement
           n == Len(st.arguments)
           args == LowerArguments(0, st.arguments, instructions, <<>>, constants, locals, pass)
           saved == Append(args.ins, Comment("saving registers")) \o SaveRegisters
       IN IF args.err # NoError
          THEN Fail(args.err, args.ins)
          ELSE IF pass = "Second" /\ ~get_label_found(st.identifier)
               THEN Fail(Panic("unreachable"), saved)
               ELSE LET called == Append(saved, JumpAndLink(CallTarget(st.identifier, pass)))
                        done == called \o RestoreRegisters \o DeallocateArguments(n)
                    IN /\ instructions' = done
                       /\ comments' = IF pass = "Second"
                                      THEN add_comment(comments, called, "FunctionCall")
                                      ELSE comments
                       /\ calls' = Append(calls,
                              [pass |-> pass, identifier |-> st.identifier,
                               arguments |-> st.arguments, base |-> Len(instructions),
                               ends |-> args.ends, jal_line |-> Len(saved),
                               end |-> Len(done),
                               tail |-> SubSeq(done, Len(args.ins) + 1, Len(done)),
                               forward |-> st.identifier \notin defined])
                       /\ sp_tracked' = sp_tracked
                              \cup ((Len(args.ins) + 2)..Len(saved))
                              \cup ((Len(called) + 1)..(Len(called) + Len(RestoreRegisters)))
                       /\ todo' = Tail(todo)
                       /\ UNCHANGED <<program, pass, outcome, error, output, labels,
                                      devices, constants, stackVars, first_len,
                                      first_labels, defined, frames, returns,
                                      device_io, jumps, machineVars>>
                       /\ scopes' = ScopesAfter

\* a jump that keeps the placeholder in pass 2
JumpTarget_Placeholder(label, ps) == 0

\* the target of a forward or backward jump (get_label in pass 2, the
\* placeholder 0 in pass 1)
JumpTarget(label, ps) == IF ps = "Second" THEN labels[label] ELSE 0

\* Statement::Loop up to the call that lowers the body
LoopStmt ==
    /\ Lowering("Loop")
    /\ LET st == Head(todo).statement
           loop_label == LoopName(loop_counter)
       IN /\ loop_counter' = loop_counter + 1
          /\ loops' = Append(loops, loop_label)
          /\ instructions' = add_label_instructions(instructions, loop_label)
          /\ labels' = add_label_labels(labels, instructions, loop_label)
          /\ todo' = <<StatementTask(Block(st.body)), LoopEndTask(loop_label)>> \o Tail(todo)
          /\ frames' = Append(frames, Frame("Loop", loop_label, Len(instructions) + 1, st.body))
          /\ UNCHANGED <<program, pass, outcome, error, output, comments, devices,
                         constants, rsp_offset, locals, saved_registers, if_counter,
                         historyVars, returns, sp_tracked, device_io, jumps, machineVars>>
          /\ scopes' = ScopesAfter

\* Statement::Loop after the body: the jump back and Stack::end_loop
LoopEnd ==
    /\ Resuming("LoopEnd")
    /\ LET t == Head(todo)
       IN IF pass = "Second" /\ ~get_label_found(t.loop_label)
          THEN Fail(Panic("unreachable"), instructions)
          ELSE /\ instructions' = Append(instructions, Jump(JumpTarget(t.loop_label, pass)))
               /\ loops' = IF loops = <<>> THEN loops ELSE SubSeq(loops, 1, Len(loops) - 1)
               /\ todo' = Tail(todo)
               /\ jumps' = Append(jumps,
                      JumpRecord("Loop", t.loop_label, Len(instructions) + 1,
                                 frames[Len(frames)].line, frames[Len(frames)].depth,
                                 Len(loops')))
               /\ frames' = Front(frames)
               /\ UNCHANGED <<program, pass, outcome, error, output, comments, labels,
                              devices, constants, rsp_offset, locals, saved_registers,
                              loop_counter, if_counter, historyVars, returns, sp_tracked,
                              device_io, machineVars>>
               /\ scopes' = ScopesAfter

\* IfStatement::If up to the call that lowers the body
IfStmt ==
    /\ Lowering("If")
    /\ LET st == Head(todo).statement
           r == generate_expr(st.condition, instructions, constants, locals, pass)
           popped == Append(r.ins, Pop("r0"))
           end_label == EndLabel(IfName(if_counter))
       IN IF r.err # NoError
          THEN Fail(r.err, r.ins)
          ELSE IF pass = "Second" /\ ~get_label_found(end_label)
               THEN Fail(Panic("unreachable"), popped)
               ELSE /\ if_counter' = if_counter + 1
                    /\ instructions' = Append(popped,
                           BranchEqualZero(Reg("r0"), Num(JumpTarget(end_label, pass))))
                    /\ todo' = <<StatementTask(Block(st.body)), IfEndTask(end_label)>>
                               \o Tail(todo)
                    /\ jumps' = Append(jumps,
                           JumpRecord("If", end_label, Len(popped) + 1, 0,
                                      Len(loops), Len(loops)))
                    /\ UNCHANGED <<program, pass, outcome, error, output, comments, labels,
                                   devices, constants, rsp_offset, locals, saved_registers,
                                   loops, loop_counter, historyVars, frames, returns,
                                   sp_tracked, device_io, machineVars>>
                    /\ scopes' = ScopesAfter

\* IfStatement::If and IfStatement::IfElse after the last body: the end label
IfEnd ==
    /\ Resuming("IfEnd")
    /\ LET t == Head(todo)
       IN /\ instructions' = add_label_instructions(instructions, t.end_label)
          /\ labels' = add_label_labels(labels, instructions, t.end_label)
          /\ todo' = Tail(todo)
          /\ UNCHANGED <<program, pass, outcome, error, output, comments, devices,
                         constants, stackVars, historyVars, traceVars, machineVars>>
          /\ scopes' = ScopesAfter

\* IfStatement::IfElse up to the call that lowers the then-body
IfElseStmt ==
    /\ Lowering("IfElse")
    /\ LET st == Head(todo).statement
           r == generate_expr(st.condition, instructions, constants, locals, pass)
           popped == Append(r.ins, Pop("r0"))
           if_label == IfName(if_counter)
           else_label == ElseLabel(if_label)
           end_label == EndLabel(if_label)
       IN IF r.err # NoError
          THEN Fail(r.err, r.ins)
          ELSE IF pass = "Second" /\ ~get_label_found(else_label)
               THEN Fail(Panic("unreachable"), popped)
               ELSE /\ if_counter' = if_counter + 1
                    /\ instructions' = Append(popped,
                           BranchEqualZero(Reg("r0"), Num(JumpTarget(else_label, pass))))
                    /\ todo' = <<StatementTask(Block(st.body)),
                                 IfElseMidTask(else_label, end_label, st.else_body)>>
                               \o Tail(todo)
                    /\ jumps' = Append(jumps,
                           JumpRecord("IfElse", else_label, Len(popped) + 1, 0,
                                      Len(loops), Len(loops)))
                    /\ UNCHANGED <<program, pass, outcome, error, output, comments, labels,
                                   devices, constants, rsp_offset, locals, saved_registers,
                                   loops, loop_counter, historyVars, frames, returns,
                                   sp_tracked, device_io, machineVars>>
                    /\ scopes' = ScopesAfter

\* IfStatement::IfElse between the bodies: the jump to the end and the else label
IfElseMid ==
    /\ Resuming("IfElseMid")
    /\ LET t == Head(todo)
           jumped == Append(instructions, Jump(JumpTarget(t.end_label, pass)))
       IN IF pass = "Second" /\ ~get_label_found(t.end_label)
          THEN Fail(Panic("unreachable"), instructions)
          ELSE /\ instructions' = add_label_instructions(jumped, t.else_label)
               /\ labels' = add_label_labels(labels, jumped, t.else_label)
               /\ todo' = <<StatementTask(Block(t.else_body)), IfEndTask(t.end_label)>>
                          \o Tail(todo)
               /\ jumps' = Append(jumps,
                      JumpRecord("Else", t.end_label, Len(jumped), 0,
                                 Len(loops), Len(loops)))
               /\ UNCHANGED <<program, pass, outcome, error, output, comments, devices,
                              constants, stackVars, historyVars, frames, returns,
                              sp_tracked, device_io, machineVars>>
               /\ scopes' = ScopesAfter

\* DeviceStatement::Read
DeviceReadStmt ==
    /\ Lowering("DeviceRead")
    /\ LET st == Head(todo).statement
       IN IF st.local \notin DOMAIN locals
          THEN Fail(UndefinedVariable(st.local), instructions)
          ELSE IF pass = "Second" /\ st.device \notin DOMAIN devices
               THEN Fail(Panic("unwrap"), instructions)
               ELSE IF pass = "Second" /\ st.device_variable \notin DeviceVariables
                    THEN Fail(ParseError(st.device_variable), instructions)
                    ELSE /\ instructions' =
                              Append(instructions,
                                     IF pass = "Second"
                                     THEN LoadDeviceVariable(devices[st.device],
                                                             st.device_variable, "r0")
                                     ELSE LoadDeviceVariable("d0", "Setting", "r0"))
                              \o assign_variable(locals[st.local], "r0")
                         /\ todo' = Tail(todo)
                         /\ device_io' = Append(device_io,
                                [pass |-> pass, statement |-> st,
                                 at |-> Len(instructions) + 1])
                         /\ UNCHANGED <<program, pass, outcome, error, output, comments,
                                        labels, devices, constants, stackVars,
                                        historyVars, frames, returns, sp_tracked, jumps,
                                        machineVars>>
                         /\ scopes' = ScopesAfter

\* DeviceStatement::Write
DeviceWriteStmt ==
    /\ Lowering("DeviceWrite")
    /\ LET st == Head(todo).statement
           r == generate_expr(st.value, instructions, constants, locals, pass)
           popped == Append(r.ins, Pop("r0"))
       IN IF r.err # NoError
          THEN Fail(r.err, r.ins)
          ELSE IF pass = "Second" /\ st.device \notin DOMAIN devices
               THEN Fail(Panic("unwrap"), popped)
               ELSE IF pass = "Second" /\ st.device_variable \notin DeviceVariables
                    THEN Fail(ParseError(st.device_variable), popped)
                    ELSE /\ instructions' =
                              Append(popped,
                                     IF pass = "Second"
                                     THEN StoreDeviceVariable(devices[st.device],
                                                              st.device_variable, "r0")
                                     ELSE StoreDeviceVariable("d0", "Setting", "r0"))
                         /\ todo' = Tail(todo)
                         /\ device_io' = Append(device_io,
                                [pass |-> pass, statement |-> st,
                                 at |-> Len(popped) + 1])
                         /\ UNCHANGED <<program, pass, outcome, error, output, comments,
                                        labels, devices, constants, stackVars,
                                        historyVars, frames, returns, sp_tracked, jumps,
                                        machineVars>>
                         /\ scopes' = ScopesAfter

(***************************************************************************)
(* generate_program (crates/compiler/src/lib.rs 343-384).                  *)
(***************************************************************************)
\* an end of the first loop without Stack::clear
ClearFirstPass_KeepCounters ==
    /\ outcome = "running"
    /\ pass = "First"
    /\ todo = <<>>
    /\ first_len' = Len(instructions)
    /\ first_labels' = labels
    /\ comments' = EmptyMap
    /\ instructions' = <<>>
    /\ pass' = "Second"
    /\ todo' = Tasks(program)
    /\ defined' = {}
    /\ sp_tracked' = {}
    /\ UNCHANGED <<program, outcome, error, output, labels, devices, constants,
                   stackVars, calls, frames, returns, device_io, jumps, machineVars>>
    /\ scopes' = scopes

\* a clear_first_pass that also clears labels, devices and constants
ClearFirstPass_ClearsAll ==
    /\ outcome = "running"
    /\ pass = "First"
    /\ todo = <<>>
    /\ first_len' = Len(instructions)
    /\ first_labels' = labels
    /\ comments' = EmptyMap
    /\ instructions' = <<>>
    /\ labels' = EmptyMap
    /\ devices' = EmptyMap
    /\ constants' = EmptyMap
    /\ loop_counter' = 0
    /\ if_counter' = 0
    /\ pass' = "Second"
    /\ todo' = Tasks(program)
    /\ defined' = {}
    /\ sp_tracked' = {}
    /\ UNCHANGED <<program, outcome, error, output,
                   rsp_offset, locals, saved_registers, loops, calls, frames,
                   returns, device_io, jumps, machineVars>>
    /\ scopes' = scopes

\* the end of the first loop: clear_first_pass, Stack::clear, and the start
\* of the second loop
ClearFirstPass ==
    /\ outcome = "running"
    /\ pass = "First"
    /\ todo = <<>>
    /\ first_len' = Len(instructions)
    /\ first_labels' = labels
    /\ comments' = EmptyMap
    /\ instructions' = <<>>
    /\ loop_counter' = 0
    /\ if_counter' = 0
    /\ pass' = "Second"
    /\ todo' = Tasks(program)
    /\ defined' = {}
    /\ sp_tracked' = {}
    /\ UNCHANGED <<program, outcome, error, output, labels, devices, constants,
                   rsp_offset, locals, saved_registers, loops, calls, frames,
                   returns, device_io, jumps, machineVars>>
    /\ scopes' = scopes

\* an end of the second loop that does not look for main
Finish_NoMainCheck ==
    /\ outcome = "running"
    /\ pass = "Second"
    /\ todo = <<>>
    /\ outcome' = "Ok"
    /\ error' = error
    /\ output' = get_code(instructions, comments)
    /\ UNCHANGED <<program, pass, todo, codegenVars, stackVars, historyVars, traceVars, machineVars>>
    /\ scopes' = scopes

\* the end of the second loop: the check for main and get_code
Finish ==
    /\ outcome = "running"
    /\ pass = "Second"
    /\ todo = <<>>
    /\ IF "main" \notin DOMAIN labels
       THEN /\ outcome' = "Err"
            /\ error' = UndefinedMain
            /\ output' = output
       ELSE IF \E line \in DOMAIN comments : line < 0 \/ line >= Len(instructions)
            THEN /\ outcome' = "panic"
                 /\ error' = Panic("index out of bounds")
                 /\ output' = output
            ELSE /\ outcome' = "Ok"
                 /\ error' = error
                 /\ \E order \in IterationOrders(comments) :
                        output' = get_code_iterating(instructions, comments, order)
    /\ UNCHANGED <<program, pass, todo, codegenVars, stackVars, historyVars, traceVars, machineVars>>
    /\ scopes' = scopes

(***************************************************************************)
(* The target processor running the returned program, after the            *)
(* instruction documentation of crates/mips/src/instructions.              *)
(***************************************************************************)
Registers == {"r0", "r1", "r2", "r3", "r4", "r5", "r6", "r7", "ra", "sp"}

Abs(x) == IF x < 0 THEN -x ELSE x

\* the value of an operand a(r?|num)
Val(a) == IF a.k = "reg" THEN regs[a.r] ELSE a.n

Executing(ops) ==
    /\ outcome = "Ok"
    /\ mstatus = "running"
    /\ msteps < MaxExec
    /\ mpc \in 0..(Len(instructions) - 1)
    /\ instructions[mpc + 1].op \in ops

\* the instruction at the line being executed
Current == instructions[mpc + 1]

\* history: a call whose five restores have just been executed is forgotten
Restored(s) == IF s # <<>> /\ mpc = s[Len(s)].ret + 5 THEN SubSeq(s, 1, Len(s) - 1) ELSE s

\* history: no store to a local on the stack since the last other push or pop
NoSlotIo ==
    [stored |-> FALSE, n |-> 0, slot |-> 0, value |-> 0,
     read |-> FALSE, read_slot |-> 0, read_value |-> 0]

\* the line being executed is the push of assign_variable!'s
\* `sub sp sp n; push r0; add sp sp n`
StoreSequence ==
    /\ Current = Push(Reg("r0"))
    /\ mpc >= 1
    /\ mpc + 2 <= Len(instructions)
    /\ instructions[mpc].op = "sub"
    /\ instructions[mpc].register = "sp"
    /\ instructions[mpc + 2].op = "add"
    /\ instructions[mpc + 2].register = "sp"
    /\ instructions[mpc + 2].b = instructions[mpc].b

\* the line being executed is the peek of generate_expr's read of a local at
\* Stack(-n): `sub sp sp n; peek r0; add sp sp n`, or the peek alone for n = 1
ReadSequence(n) ==
    /\ Current = Peek("r0")
    /\ mpc >= 1
    /\ IF n = 1
       THEN instructions[mpc] = Comment("retieve")
       ELSE instructions[mpc] = Subtract("sp", Reg("sp"), Num(n))

\* history: slot_io after the instruction at the line being executed
SlotIoAfter ==
    CASE Current.op = "push" ->
            IF StoreSequence
            THEN [NoSlotIo EXCEPT !.stored = TRUE, !.n = instructions[mpc].b.n,
                                  !.slot = regs["sp"], !.value = Val(Current.a)]
            ELSE NoSlotIo
      [] Current.op = "pop" -> NoSlotIo
      [] Current.op = "peek" ->
            IF slot_io.stored /\ ReadSequence(slot_io.n)
            THEN [slot_io EXCEPT !.read = TRUE, !.read_slot = regs["sp"] - 1,
                                 !.read_value = mem[regs["sp"] - 1]]
            ELSE slot_io
      [] Current.op \in {"add", "sub"} ->
            IF Current.register # "sp" \/ (slot_io.stored /\ Current.b = Num(slot_io.n))
            THEN slot_io
            ELSE NoSlotIo
      [] OTHER -> slot_io

Advance(line) ==
    /\ mpc' = line
    /\ msteps' = msteps + 1

Halt ==
    /\ mstatus' = "halted"
    /\ msteps' = msteps + 1
    /\ UNCHANGED <<mpc, regs, mem, cmp_in, saved_in, slot_io>>

compilerVars == <<program, pass, todo, outcome, error, output, codegenVars, stackVars,
                  historyVars, traceVars, scopes>>

\* push a(r?|num): "Push a onto the stack (increment sp)"
ExecPush ==
    /\ Executing({"push"})
    /\ IF regs["sp"] \in 0..(StackSize - 1)
       THEN /\ mem' = [mem EXCEPT ![regs["sp"]] = Val(Current.a)]
            /\ regs' = [regs EXCEPT !["sp"] = @ + 1]
            /\ Advance(mpc + 1)
            /\ mstatus' = mstatus
            /\ cmp_in' = cmp_in
            /\ saved_in' = Restored(saved_in)
            /\ slot_io' = SlotIoAfter
       ELSE Halt
    /\ UNCHANGED compilerVars

\* pop r?: "Register = top of stack, then pop (decrement sp)";
\* peek r?: "Register = top of stack"
ExecPopPeek ==
    /\ Executing({"pop", "peek"})
    /\ IF regs["sp"] \in 1..StackSize
       THEN /\ regs' = IF Current.op = "pop"
                       THEN [[regs EXCEPT !["sp"] = @ - 1]
                                EXCEPT ![Current.register] = mem[regs["sp"] - 1]]
                       ELSE [regs EXCEPT ![Current.register] = mem[regs["sp"] - 1]]
            /\ Advance(mpc + 1)
            /\ mstatus' = mstatus
            /\ mem' = mem
            /\ cmp_in' = cmp_in
            /\ saved_in' = Restored(saved_in)
            /\ slot_io' = SlotIoAfter
       ELSE Halt
    /\ UNCHANGED compilerVars

\* add, sub, mul, div r? a b: "Register = a op b"; a quotient that is not
\* an integer, or a division by zero, ends the modelled run
ExecArithmetic ==
    /\ Executing({"add", "sub", "mul", "div"})
    /\ LET a == Val(Current.a)
           b == Val(Current.b)
       IN IF Current.op = "div" /\ (b = 0 \/ a % Abs(b) # 0)
          THEN Halt
          ELSE /\ regs' = [regs EXCEPT ![Current.register] =
                              CASE Current.op = "add" -> a + b
                                [] Current.op = "sub" -> a - b
                                [] Current.op = "mul" -> a * b
                                [] Current.op = "div" ->
                                     IF (a < 0) = (b < 0)
                                     THEN Abs(a) \div Abs(b)
                                     ELSE -(Abs(a) \div Abs(b))]
               /\ Advance(mpc + 1)
               /\ mstatus' = mstatus
               /\ mem' = mem
               /\ cmp_in' = cmp_in
               /\ saved_in' = Restored(saved_in)
               /\ slot_io' = SlotIoAfter
    /\ UNCHANGED compilerVars

\* the condition a branch instruction tests
Taken(op, a, b) ==
    CASE op = "beq" -> a = b
      [] op = "bgt" -> a > b
      [] op = "blt" -> a < b

\* beq, bgt, blt a b c: "Branch to line c if a == b" (a > b, a < b)
ExecBranch ==
    /\ Executing({"beq", "bgt", "blt"})
    /\ LET a == Val(Current.a)
           b == Val(Current.b)
       IN /\ Advance(IF Taken(Current.op, a, b) THEN Val(Current.c) ELSE mpc + 1)
          /\ cmp_in' = [line |-> mpc, op |-> Current.op, a |-> a, b |-> b]
    /\ saved_in' = Restored(saved_in)
    /\ slot_io' = SlotIoAfter
    /\ UNCHANGED <<regs, mem, mstatus>>
    /\ UNCHANGED compilerVars

\* beqz a b: "Branch to line b if a == 0"
ExecBranchEqualZero ==
    /\ Executing({"beqz"})
    /\ Advance(IF Val(Current.a) = 0 THEN Val(Current.b) ELSE mpc + 1)
    /\ saved_in' = Restored(saved_in)
    /\ slot_io' = SlotIoAfter
    /\ UNCHANGED <<regs, mem, mstatus, cmp_in>>
    /\ UNCHANGED compilerVars

\* j int: "Jump execution to line a"
ExecJump ==
    /\ Executing({"j"})
    /\ Advance(Val(Current.a))
    /\ saved_in' = Restored(saved_in)
    /\ slot_io' = SlotIoAfter
    /\ UNCHANGED <<regs, mem, mstatus, cmp_in>>
    /\ UNCHANGED compilerVars

\* jal int: "Jump execution to line a and store next line number in ra"
ExecJumpAndLink ==
    /\ Executing({"jal"})
    /\ Advance(Val(Current.a))
    /\ regs' = [regs EXCEPT !["ra"] = mpc + 1]
    /\ saved_in' = Append(Restored(saved_in),
                          [ret |-> mpc + 1,
                           values |-> [i \in 1..Len(SavedRegisters) |-> regs[SavedRegisters[i]]]])
    /\ slot_io' = SlotIoAfter
    /\ UNCHANGED <<mem, mstatus, cmp_in>>
    /\ UNCHANGED compilerVars

\* a label marker, a comment line, alias and yield change no register
ExecMisc ==
    /\ Executing({"label", "comment", "alias", "yield"})
    /\ Advance(mpc + 1)
    /\ saved_in' = Restored(saved_in)
    /\ slot_io' = SlotIoAfter
    /\ UNCHANGED <<regs, mem, mstatus, cmp_in>>
    /\ UNCHANGED compilerVars

\* what a device variable may read as
DeviceValues == {0, 7}

\* l r? d? var loads a device variable into the register; s d? var r? stores
ExecDeviceIo ==
    /\ Executing({"l", "s"})
    /\ \E v \in DeviceValues :
          regs' = IF Current.op = "l" THEN [regs EXCEPT ![Current.register] = v] ELSE regs
    /\ Advance(mpc + 1)
    /\ saved_in' = Restored(saved_in)
    /\ slot_io' = SlotIoAfter
    /\ UNCHANGED <<mem, mstatus, cmp_in>>
    /\ UNCHANGED compilerVars

\* execution leaves the program
ExecEnd ==
    /\ outcome = "Ok"
    /\ mstatus = "running"
    /\ msteps < MaxExec
    /\ mpc \notin 0..(Len(instructions) - 1)
    /\ Halt
    /\ UNCHANGED compilerVars

(***************************************************************************)
(* The programs handed to generate_program.                                *)
(***************************************************************************)
C(i) == ConstantE(IntV(i))
Id(name) == IdentifierE(name)

ParameterNames == <<"a", "b", "c", "d", "e", "g", "h">>
\* the parameter lists a, b, c, ... of every length up to MaxParams
ParameterLists == {SubSeq(ParameterNames, 1, n) : n \in 0..MaxParams}

\* argument lists: constants only; a binary operation second; a local second
ConstantArguments == <<C(1), C(2), C(3), C(4), C(5), C(6), C(7)>>
OperationArguments ==
    <<C(1), BinaryOp(C(2), "Add", C(3)), C(3), C(4), C(5), C(6), C(7)>>
LocalArguments == <<C(1), Id("x"), C(3), C(4), C(5), C(6), C(7)>>
ArgumentLists ==
    {SubSeq(ConstantArguments, 1, n) : n \in 0..MaxArgs}
    \cup {SubSeq(OperationArguments, 1, n) : n \in 2..MaxArgs}
    \cup {SubSeq(LocalArguments, 1, n) : n \in 2..MaxArgs}

Comparisons ==
    {BinaryOp(C(l), op, C(r)) : l \in {1, 2}, r \in {1, 2}, op \in {"Equals", "Lower", "Greater"}}

\* bodies of a function that calls nothing
Bodies ==
    {<<>>,
     <<Definition("x", BinaryOp(C(2), "Add", C(3)))>>,
     <<Definition("x", BinaryOp(BinaryOp(C(6), "Mul", C(2)), "Div",
                                BinaryOp(C(5), "Sub", C(2))))>>,
     <<Definition("x", C(1)), Definition("y", Id("x"))>>,
     <<Definition("x", C(1)), Assignment("x", BinaryOp(Id("x"), "Add", C(1)))>>,
     <<Definition("x", ConstantE(Boolean(TRUE))), Definition("y", ConstantE(Float(2)))>>,
     <<Assignment("x", C(1))>>,
     <<Assignment("a", C(1))>>,
     <<Definition("x", Id("z"))>>,
     <<Definition("x", Id("a"))>>,
     <<Definition("x", Id("e"))>>,
     <<Definition("x", BinaryOp(C(1), "Add", Id("z")))>>,
     <<Definition("x", BinaryOp(C(1), "Conj", C(1)))>>,
     <<Definition("x", UnaryOp("Not", C(1)))>>,
     <<IfElse(BinaryOp(C(1), "Equals", C(1)), <<YieldS>>, <<YieldS>>)>>,
     <<If(C(1), <<Definition("x", C(1))>>), If(C(0), <<YieldS>>)>>,
     <<Loop(<<YieldS>>)>>,
     <<Loop(<<Loop(<<YieldS>>), YieldS>>)>>,
     <<Block(<<Definition("x", C(1))>>), Assignment("x", C(2))>>,
     <<ConstantS("K", IntV(7)), Definition("x", Id("K"))>>,
     <<Alias("d2", "sensor"), Definition("t", C(0)),
       DeviceRead("sensor", "Temperature", "t"),
       DeviceWrite(Id("t"), "sensor", "Setting")>>,
     <<DeviceRead("sensor", "Temperature", "t")>>,
     <<Definition("t", C(0)), DeviceRead("sensor", "Temperature", "t")>>,
     <<DeviceWrite(C(1), "sensor", "Setting")>>,
     <<Alias("d2", "sensor"), DeviceWrite(C(1), "sensor", "Volume")>>,
     <<Alias("d9", "sensor")>>,
     <<FunctionCall("g", <<>>)>>,
     <<FunctionCall("main", <<Id("z")>>)>>,
     <<Definition("x", BinaryOp(Id("z"), "NotEquals", C(1)))>>,
     <<Definition("x", BinaryOp(C(1), "Disj", BinaryOp(C(1), "GreaterEquals", C(2))))>>,
     <<If(BinaryOp(C(1), "LowerEquals", C(2)), <<YieldS>>)>>,
     <<Definition("t", C(0)), DeviceRead("sensor", "Temperature", "t"),
       Alias("d2", "sensor")>>,
     <<Alias("d1", "sensor"), Alias("d3", "pump"), Alias("d2", "sensor"),
       DeviceWrite(C(1), "sensor", "On"), DeviceWrite(C(0), "pump", "On")>>,
     <<Loop(<<>>)>>,
     <<Loop(<<If(C(1), <<YieldS>>), Loop(<<>>)>>)>>,
     <<Loop(<<Definition("x", C(1))>>)>>,
     <<IfElse(C(1), <<If(C(0), <<YieldS>>)>>, <<Definition("x", C(1))>>)>>,
     <<ConstantS("K", IntV(7)), Alias("d1", "sensor"),
       DeviceWrite(Id("K"), "sensor", "On")>>,
     <<Definition("x", ConstantE(Integer(1, 5)))>>,
     <<FunctionCall("main", <<Id("a")>>)>>}
    \cup {<<Definition("x", cmp)>> : cmp \in Comparisons}

\* bodies of a function that is called
CalleeBodies == {<<>>, <<Definition("y", C(1))>>}

\* statements that follow main at the top level
TopStatements ==
    {If(C(1), <<YieldS>>),
     IfElse(C(0), <<YieldS>>, <<YieldS>>),
     Loop(<<YieldS>>),
     Definition("x", C(1)),
     Assignment("x", C(1)),
     FunctionCall("main", <<>>),
     FunctionCall("g", <<>>),
     FunctionCall("main", <<Id("z")>>),
     YieldS}

\* one function main
SinglePrograms == {<<Function("main", ps, b)>> : ps \in ParameterLists, b \in Bodies}
\* main calls f, which is defined after main
ForwardPrograms ==
    {<<Function("main", ps, <<Definition("x", C(1)), FunctionCall("f", args)>>),
       Function("f", fps, fb)>> :
        ps \in {<<>>, <<"a">>}, args \in ArgumentLists,
        fps \in ParameterLists, fb \in CalleeBodies}
\* main calls f, which is defined before main
BackwardPrograms ==
    {<<Function("f", fps, fb), Function("main", <<>>, <<FunctionCall("f", <<C(1)>>)>>)>> :
        fps \in ParameterLists, fb \in CalleeBodies}
\* main followed by a statement at the top level
TopLevelPrograms ==
    {<<Function("main", ps, b), t>> :
        ps \in {<<>>, <<"a">>},
        b \in {<<>>, <<Definition("x", C(1)), Definition("y", Id("x"))>>},
        t \in TopStatements}
\* no function main
MainlessPrograms ==
    {<<>>, <<YieldS>>, <<Definition("x", C(1))>>, <<Assignment("x", C(1))>>,
     <<FunctionCall("f", <<>>)>>, <<Loop(<<YieldS>>)>>}
    \cup {<<Function("f", <<>>, b)>> : b \in Bodies}

Programs ==
    SinglePrograms \cup ForwardPrograms \cup BackwardPrograms
    \cup TopLevelPrograms \cup MainlessPrograms

(***************************************************************************)
(* Specification.                                                          *)
(***************************************************************************)
\* CodeGenerator::new(), Stack::new() and the first loop of generate_program
\* about to start; the target processor at power-on
Init ==
    /\ program \in Programs
    /\ pass = "First"
    /\ todo = Tasks(program)
    /\ outcome = "running"
    /\ error = NoError
    /\ output = <<>>
    /\ instructions = <<>>
    /\ comments = EmptyMap
    /\ labels = EmptyMap
    /\ devices = EmptyMap
    /\ constants = EmptyMap
    /\ rsp_offset = 0
    /\ locals = EmptyMap
    /\ saved_registers = <<>>
    /\ loops = <<>>
    /\ loop_counter = 0
    /\ if_counter = 0
    /\ first_len = 0
    /\ first_labels = EmptyMap
    /\ calls = <<>>
    /\ defined = {}
    /\ frames = <<>>
    /\ returns = <<>>
    /\ sp_tracked = {}
    /\ device_io = <<>>
    /\ jumps = <<>>
    /\ scopes = <<>>
    /\ mpc = 0
    /\ regs = [r \in Registers |-> 0]
    /\ mem = [i \in 0..(StackSize - 1) |-> 0]
    /\ msteps = 0
    /\ mstatus = "running"
    /\ cmp_in = [line |-> -1, op |-> "", a |-> 0, b |-> 0]
    /\ saved_in = <<>>
    /\ slot_io = NoSlotIo

Next ==
    \/ AssignmentStmt
    \/ DefinitionStmt
    \/ AliasStmt
    \/ ConstantStmt
    \/ BlockStmt
    \/ YieldStmt
    \/ FunctionStmt
    \/ FunctionEpilogue
    \/ FunctionCallStmt
    \/ LoopStmt
    \/ LoopEnd
    \/ IfStmt
    \/ IfEnd
    \/ IfElseStmt
    \/ IfElseMid
    \/ DeviceReadStmt
    \/ DeviceWriteStmt
    \/ ClearFirstPass
    \/ Finish
    \/ ExecPush
    \/ ExecPopPeek
    \/ ExecArithmetic
    \/ ExecBranch
    \/ ExecBranchEqualZero
    \/ ExecJump
    \/ ExecJumpAndLink
    \/ ExecMisc
    \/ ExecDeviceIo
    \/ ExecEnd

Spec == Init /\ [][Next]_vars

(***************************************************************************)
(* Properties.                                                             *)
(***************************************************************************)
\* the instructions that carry a line number, and the line they carry
HasLineTarget(i) ==
    \/ i.op \in {"beq", "bgt", "blt"} /\ i.c.k = "num"
    \/ i.op = "beqz" /\ i.b.k = "num"
    \/ i.op \in {"j", "jal"}
LineTarget(i) ==
    CASE i.op \in {"beq", "bgt", "blt"} -> i.c.n
      [] i.op = "beqz" -> i.b.n
      [] i.op \in {"j", "jal"} -> i.a.n

\* the names of the Function statements of a statement list, nested ones included
RECURSIVE FunctionNames(_)
FunctionNames(stmts) ==
    IF stmts = <<>> THEN {}
    ELSE LET st == Head(stmts)
         IN FunctionNames(Tail(stmts)) \cup
            CASE st.s = "Function" -> {st.identifier} \cup FunctionNames(st.body)
              [] st.s = "Block" -> FunctionNames(st.statements)
              [] st.s \in {"Loop", "If"} -> FunctionNames(st.body)
              [] st.s = "IfElse" -> FunctionNames(st.body) \cup FunctionNames(st.else_body)
              [] OTHER -> {}

\* C1 (pass parity): for every program that compiles, the code buffer holds
\* as many instructions at the end of pass 2 as at the end of pass 1, and
\* every label maps to the same line at the end of both passes.
C1_PassParity ==
    outcome = "Ok" => /\ Len(instructions) = first_len
                      /\ labels = first_labels

\* C2 (forward function call): the jal of a call lowered in pass 2 before
\* the Function statement it names carries the line that labels holds for
\* that function at the end of pass 2.
C2_ForwardCallTarget ==
    outcome = "Ok" =>
        \A k \in 1..Len(calls) :
            (calls[k].pass = "Second" /\ calls[k].forward) =>
                instructions[calls[k].jal_line + 1] =
                    JumpAndLink(labels[calls[k].identifier])

\* C3 (label stability): in the final instruction sequence every branch,
\* jump and jump-and-link that carries a line number carries one within
\* [0, instructions.len()).
C3_LabelStability ==
    outcome = "Ok" =>
        \A k \in 1..Len(instructions) :
            HasLineTarget(instructions[k]) =>
                /\ 0 <= LineTarget(instructions[k])
                /\ LineTarget(instructions[k]) < Len(instructions)

\* a compile that ended with the error err and returned no text
FailedWith(err) ==
    /\ outcome = "Err"
    /\ error = err
    /\ output = <<>>

\* the step ends the compile with the error err and returns no text
FailsWith(err) ==
    /\ outcome' = "Err"
    /\ error' = err
    /\ output' = <<>>

C5_UndefinedFunction ==
    [][(/\ Lowering("FunctionCall")
        /\ pass = "Second"
        /\ Head(todo).statement.identifier \notin FunctionNames(program)
        /\ LowerArguments(0, Head(todo).statement.arguments, instructions, <<>>,
                          constants, locals, pass).err = NoError)
       => FailsWith(UndefinedFunction(Head(todo).statement.identifier))]_vars

\* an expression built without unary operators and unimplemented operators
RECURSIVE Implemented(_)
Implemented(expr) ==
    CASE expr.e = "BinaryOp" -> /\ expr.op \notin UnimplementedOps
                                /\ Implemented(expr.left)
                                /\ Implemented(expr.right)
      [] expr.e = "UnaryOp" -> FALSE
      [] OTHER -> TRUE

\* the identifiers of an expression, left to right
RECURSIVE Identifiers(_)
Identifiers(expr) ==
    CASE expr.e = "Identifier" -> <<expr.identifier>>
      [] expr.e = "BinaryOp" -> Identifiers(expr.left) \o Identifiers(expr.right)
      [] expr.e = "UnaryOp" -> Identifiers(expr.operand)
      [] OTHER -> <<>>

RECURSIVE AllIdentifiers(_)
AllIdentifiers(exprs) ==
    IF exprs = <<>> THEN <<>>
    ELSE Identifiers(Head(exprs)) \o AllIdentifiers(Tail(exprs))

\* the expressions a statement hands to generate_expr, in order
LoweredExpressions(st) ==
    CASE st.s \in {"Assignment", "Definition"} -> <<st.expression>>
      [] st.s \in {"If", "IfElse"} -> <<st.condition>>
      [] st.s = "DeviceWrite" -> <<st.value>>
      [] st.s = "FunctionCall" -> st.arguments
      [] OTHER -> <<>>

\* the names that are neither a named constant nor a local, in order
UndefinedNames(names) ==
    SelectSeq(names, LAMBDA n : n \notin DOMAIN constants /\ n \notin DOMAIN locals)

C7_ComparisonResult ==
    (outcome = "Ok" /\ mstatus = "running" /\ cmp_in.line >= 0
     /\ mpc = cmp_in.line + 3) =>
        /\ regs["r0"] = IF Taken(cmp_in.op, cmp_in.a, cmp_in.b) THEN 1 ELSE 0
        /\ instructions[mpc + 1] = Push(Reg("r0"))

\* an argument whose value is known without running the program
RECURSIVE Static(_)
Static(expr) ==
    CASE expr.e = "Constant" -> expr.value.t = "Integer"
      [] expr.e = "BinaryOp" -> /\ expr.op \in {"Add", "Sub", "Mul"}
                                /\ Static(expr.left)
                                /\ Static(expr.right)
      [] OTHER -> FALSE

RECURSIVE StaticValue(_)
StaticValue(expr) ==
    CASE expr.e = "Constant" -> expr.value.lo
      [] expr.op = "Add" -> StaticValue(expr.left) + StaticValue(expr.right)
      [] expr.op = "Sub" -> StaticValue(expr.left) - StaticValue(expr.right)
      [] expr.op = "Mul" -> StaticValue(expr.left) * StaticValue(expr.right)

\* C8 (argument registers at the call): when the jal of a call is about to
\* execute, r_i holds the value of argument i for every i < min(n, 4).
C8_ArgumentRegisters ==
    (outcome = "Ok" /\ mstatus = "running") =>
        \A k \in 1..Len(calls) :
            (calls[k].pass = "Second" /\ mpc = calls[k].jal_line) =>
                \A i \in 0..3 :
                    (i < Len(calls[k].arguments) /\ Static(calls[k].arguments[i + 1])) =>
                        regs[RegisterFromU8(i)] = StaticValue(calls[k].arguments[i + 1])

\* the instructions of a call after its arguments, for n arguments and a
\* jal to line target
CallTail(n, target) ==
    <<Comment("saving registers"),
      Push(Reg("ra")), Push(Reg("r4")), Push(Reg("r5")), Push(Reg("r6")), Push(Reg("r7")),
      JumpAndLink(target),
      Pop("r7"), Pop("r6"), Pop("r5"), Pop("r4"), Pop("ra")>>
    \o [i \in 1..(IF n > 4 THEN n - 4 ELSE 0) |-> Pop("r0")]

\* a call's instructions with the line of every jal blanked
Blank(ins) == [i \in 1..Len(ins) |-> IF ins[i].op = "jal" THEN JumpAndLink(0) ELSE ins[i]]

\* the calls lowered in pass 1
FirstCalls == SelectSeq(calls, LAMBDA c : c.pass = "First")

\* C9 (call sequence order): the instructions of a FunctionCall with n
\* arguments are, in order: for each argument its evaluation, ending in the
\* push of its value, followed immediately by pop r_i when i < 4 and by no
\* pop when i >= 4; then (after the comment line that announces it) push
\* ra, r4, r5, r6, r7; one jal; pop r7, r6, r5, r4, ra; and max(n - 4, 0)
\* times pop r0; the same in pass 1 and pass 2 but for the line of the jal.
C9_CallSequence ==
    \A k \in 1..Len(calls) :
        LET c == calls[k]
            n == Len(c.arguments)
            args_end == IF n = 0 THEN c.base ELSE c.ends[n]
        IN /\ Len(c.ends) = n
           /\ \E target \in {c.tail[7].a.n} : c.tail = CallTail(n, target)
           /\ c.pass = "First" => c.tail[7] = JumpAndLink(0)
           /\ c.pass = pass =>
                /\ SubSeq(instructions, args_end + 1, c.end) = c.tail
                /\ c.end = args_end + Len(c.tail)
                /\ \A i \in 1..n :
                      /\ (IF i = 1 THEN c.base ELSE c.ends[i - 1]) < c.ends[i]
                      /\ IF i <= 4
                         THEN /\ instructions[c.ends[i]] = Pop(RegisterFromU8(i - 1))
                              /\ instructions[c.ends[i] - 1].op = "push"
                         ELSE instructions[c.ends[i]].op = "push"
                /\ \A j \in (c.base + 1)..args_end : instructions[j].op # "jal"
           /\ (c.pass = "Second" /\ k > Len(FirstCalls)) =>
                /\ k - Len(FirstCalls) <= Len(FirstCalls)
                /\ Blank(c.tail) = Blank(calls[k - Len(FirstCalls)].tail)
                /\ c.arguments = calls[k - Len(FirstCalls)].arguments

\* C9 witness: a call with a stack-passed argument has been lowered in pass 2
C9_Witness ==
    \E k \in 1..Len(calls) :
        /\ calls[k].pass = "Second"
        /\ Len(calls[k].arguments) > 4
        /\ pass = "Second"

\* C10 (caller-save preservation): when the five restores that follow a
\* call have been executed, ra, r4, r5, r6 and r7 hold the values they held
\* when the jal was executed.
C10_CallerSavePreserved ==
    (outcome = "Ok" /\ mstatus = "running" /\ saved_in # <<>>
     /\ mpc = saved_in[Len(saved_in)].ret + 5) =>
        \A i \in 1..Len(SavedRegisters) :
            regs[SavedRegisters[i]] = saved_in[Len(saved_in)].values[i]

\* C11 (SP balance): for every Function statement, in each pass, rsp_offset
\* right after the function's epilogue equals rsp_offset right before its
\* prologue.
C11_SpBalance ==
    \A k \in 1..Len(returns) : returns[k].exit = returns[k].entry

\* the statements of a statement list, nested ones included
RECURSIVE AllStatements(_)
AllStatements(stmts) ==
    IF stmts = <<>> THEN <<>>
    ELSE LET st == Head(stmts)
         IN <<st>> \o (CASE st.s = "Function" -> AllStatements(st.body)
                         [] st.s = "Block" -> AllStatements(st.statements)
                         [] st.s \in {"Loop", "If"} -> AllStatements(st.body)
                         [] st.s = "IfElse" -> AllStatements(st.body)
                                               \o AllStatements(st.else_body)
                         [] OTHER -> <<>>)
            \o AllStatements(Tail(stmts))

\* a statement that hands generate_expr an expression with a unary operator
\* or one of &&, ||, !=, <=, >=
LowersUnimplemented(st) ==
    \E k \in 1..Len(LoweredExpressions(st)) : ~Implemented(LoweredExpressions(st)[k])

\* generate_statement is about to lower such an expression
AboutToLowerUnimplemented ==
    /\ outcome = "running"
    /\ todo # <<>>
    /\ Head(todo).k = "Statement"
    /\ LowersUnimplemented(Head(todo).statement)
    /\ ~(/\ Head(todo).statement.s = "Assignment"
          /\ Head(todo).statement.identifier \notin DOMAIN locals)

\* the step aborts with todo!()'s "not yet implemented" and returns no text
AbortsUnimplemented ==
    /\ outcome' = "panic"
    /\ error' = Panic("todo")
    /\ output' = <<>>

\* C12 as stated (unimplemented expression forms): lowering an expression
\* that contains a unary operator or one of &&, ||, !=, <=, >= ends the
\* compile in the "not yet implemented" abort, with no output text.
C12_UnimplementedAlwaysAborts ==
    [][AboutToLowerUnimplemented => AbortsUnimplemented]_vars

\* C12 as amended: a program with such an expression never returns output
\* text, and lowering such an expression ends the compile either in the
\* "not yet implemented" abort or, when an identifier lowered before the
\* operator is reached is undefined, with UndefinedVariable of that name.
C12_UnimplementedAborts ==
    /\ [](outcome = "Ok" =>
            \A k \in 1..Len(AllStatements(program)) :
                ~LowersUnimplemented(AllStatements(program)[k]))
    /\ [][AboutToLowerUnimplemented =>
            LET undefined ==
                    UndefinedNames(AllIdentifiers(LoweredExpressions(Head(todo).statement)))
            IN \/ AbortsUnimplemented
               \/ \E k \in 1..Len(undefined) : FailsWith(UndefinedVariable(undefined[k]))
          ]_vars

\* C12 witness: a compile aborted by todo!() in expression lowering
C12_Witness ==
    /\ outcome = "panic"
    /\ error = Panic("todo")
    /\ \E k \in 1..Len(AllStatements(program)) :
           LowersUnimplemented(AllStatements(program)[k])

\* the device literals that the Alias statements of the program give a name
AliasTargets(name) ==
    SelectSeq(AllStatements(program), LAMBDA st : st.s = "Alias" /\ st.alias = name)

\* the load or store that a DeviceStatement emits for the device literal d
DeviceInstruction(st, d) ==
    IF st.s = "DeviceRead"
    THEN LoadDeviceVariable(d, st.device_variable, "r0")
    ELSE StoreDeviceVariable(d, st.device_variable, "r0")

\* C13 (device alias resolution): for every DeviceRead or DeviceWrite whose
\* device identifier is declared by exactly one Alias statement of the
\* program, the load or store in the final output names that Alias's device
\* literal and the statement's own device variable.
C13_DeviceAlias ==
    outcome = "Ok" =>
        \A k \in 1..Len(device_io) :
            LET io == device_io[k]
                targets == AliasTargets(io.statement.device)
            IN (io.pass = "Second" /\ Len(targets) = 1) =>
                  /\ instructions[io.at] =
                         DeviceInstruction(io.statement, targets[1].identifier)
                  /\ output[io.at].instruction.device \in DeviceLiterals
                  /\ output[io.at].instruction.device # io.statement.device

\* C13 witness: a compiled program with a load or store through an alias of
\* a device other than the placeholder's
C13_Witness ==
    /\ outcome = "Ok"
    /\ \E k \in 1..Len(device_io) :
           /\ device_io[k].pass = "Second"
           /\ Len(AliasTargets(device_io[k].statement.device)) = 1
           /\ AliasTargets(device_io[k].statement.device)[1].identifier # "d0"
           /\ device_io[k].statement.device_variable # "Setting"

\* a DeviceRead or DeviceWrite whose device identifier no Alias statement of
\* the program declares
Unaliased(st) ==
    /\ st.s \in {"DeviceRead", "DeviceWrite"}
    /\ AliasTargets(st.device) = <<>>

\* C14 (complete output or one error): a compile that has ended has either
\* returned the complete output text or returned one error value and no
\* text; in particular the compile of a program with a DeviceRead or
\* DeviceWrite that names a device identifier no Alias declares has ended
\* with a returned error.
C14_CompleteOrError ==
    outcome # "running" =>
        /\ \/ outcome = "Ok" /\ error = NoError /\ Len(output) = Len(instructions)
           \/ outcome = "Err" /\ error # NoError /\ output = <<>>
        /\ (\E k \in 1..Len(AllStatements(program)) : Unaliased(AllStatements(program)[k]))
              => outcome = "Err"

\* C15 (determinism): the text a compile returns is the same for every
\* order in which the comments map can be iterated, so two compiles of one
\* AST return the same text; the lowering itself has one successor at
\* every step.
C15_Determinism ==
    outcome = "Ok" =>
        \A order \in IterationOrders(comments) :
            output = get_code_iterating(instructions, comments, order)

\* C15 witness: a returned text with two different comments, built from a
\* map that can be iterated in more than one order
C15_Witness ==
    /\ outcome = "Ok"
    /\ \E i, j \in DOMAIN comments : comments[i] # comments[j]
    /\ \E o1, o2 \in IterationOrders(comments) : o1 # o2

\* the instructions generate_expr appends for expr in the current state
Emitted(expr) ==
    LET r == generate_expr(expr, instructions, constants, locals, pass)
    IN SubSeq(r.ins, Len(instructions) + 1, Len(r.ins))

\* generate_expr returns Ok for expr in the current state
Lowers(expr) ==
    generate_expr(expr, instructions, constants, locals, pass).err = NoError

CountOf(ins, op) == Len(SelectSeq(ins, LAMBDA i : i.op = op))

\* the instructions that move sp directly
SpAdjustments(ins) ==
    SelectSeq(ins, LAMBDA i : i.op \in {"add", "sub"} /\ i.register = "sp")

\* every `sub sp sp n` is followed by `add sp sp n` before sp is moved again
SpRestored(ins) ==
    LET moves == SpAdjustments(ins)
    IN /\ Len(moves) % 2 = 0
       /\ \A k \in 1..Len(moves) :
              /\ moves[k].a = Reg("sp")
              /\ moves[k].op = (IF k % 2 = 1 THEN "sub" ELSE "add")
              /\ (k % 2 = 1) => moves[k + 1].b = moves[k].b

\* C16 (one value per expression): for every expression built from
\* constants, identifiers and + - * / == < >, the instructions generate_expr
\* emits hold exactly one more push than pop, and every `sub sp` is undone
\* by a matching `add sp`, in pass 1 and in pass 2.
C16_ExpressionPushesOne ==
    (outcome = "running" /\ todo # <<>> /\ Head(todo).k = "Statement") =>
        \A k \in 1..Len(LoweredExpressions(Head(todo).statement)) :
            LET expr == LoweredExpressions(Head(todo).statement)[k]
            IN (Implemented(expr) /\ Lowers(expr)) =>
                  /\ CountOf(Emitted(expr), "push") = CountOf(Emitted(expr), "pop") + 1
                  /\ SpRestored(Emitted(expr))

\* C16 witness: pass 2 is about to lower a binary operation that reads a
\* local from a stack slot below the top
C16_Witness ==
    /\ outcome = "running" /\ todo # <<>> /\ Head(todo).k = "Statement"
    /\ pass = "Second"
    /\ \E k \in 1..Len(LoweredExpressions(Head(todo).statement)) :
           LET expr == LoweredExpressions(Head(todo).statement)[k]
           IN /\ expr.e = "BinaryOp"
              /\ Implemented(expr) /\ Lowers(expr)
              /\ SpAdjustments(Emitted(expr)) # <<>>

\* C17 (sp_offset follows every push and pop): every push and every pop in
\* the code buffer was appended right after a +1 / -1 update of rsp_offset.
C17_SpOffsetTracked ==
    \A k \in 1..Len(instructions) :
        instructions[k].op \in {"push", "pop"} => k \in sp_tracked

\* the names the Definition statements of a statement list introduce,
\* nested ones included
DefinedNames(stmts) ==
    {AllStatements(stmts)[k].identifier :
        k \in {j \in 1..Len(AllStatements(stmts)) : AllStatements(stmts)[j].s = "Definition"}}

\* C18 (locals removed by the epilogue): lowering a Definition leaves its
\* name in locals, and after the epilogue of a Function locals holds no name
\* that a Definition anywhere in the function's body introduced, the bodies
\* of If, IfElse and Loop included.
C18_LocalsRemoved ==
    /\ Resuming("FunctionEpilogue") =>
           DefinedNames(frames[Len(frames)].body) \subseteq DOMAIN locals
    /\ \A k \in 1..Len(returns) :
           returns[k].locals_after \cap DefinedNames(returns[k].body) = {}

\* the lines a jump to a label can carry to land on it: the line of the
\* label's marker and the line after it, which is the one add_label records
LabelLines(label) == {labels[label] - 1, labels[label]}

\* C19 (forward if/else targets): in the final output the branch-if-zero of
\* every If lands on its end label, the branch-if-zero of every IfElse lands
\* on its else label, and the jump of every IfElse lands on its end label.
C19_IfTargets ==
    outcome = "Ok" =>
        \A k \in 1..Len(jumps) :
            (jumps[k].pass = "Second" /\ jumps[k].kind \in {"If", "IfElse", "Else"}) =>
                /\ instructions[jumps[k].at].op =
                       (IF jumps[k].kind = "Else" THEN "j" ELSE "beqz")
                /\ LineTarget(instructions[jumps[k].at]) \in LabelLines(jumps[k].label)

\* C20 (loop back-edge): the jump that ends a Loop in pass 2 carries the
\* line recorded for the loop's own label when pass 2 entered the loop,
\* which is the line after the label's marker (the first line of the body)
\* and is not greater than the line of the jump; and loops is as deep after
\* the Loop statement as before it, in both passes.
C20_LoopBackEdge ==
    \A k \in 1..Len(jumps) :
        jumps[k].kind = "Loop" =>
            /\ jumps[k].depth_after = jumps[k].depth_before
            /\ (jumps[k].pass = "Second" /\ pass = "Second") =>
                  /\ instructions[jumps[k].at] = Jump(jumps[k].recorded)
                  /\ labels[jumps[k].label] = jumps[k].recorded
                  /\ instructions[jumps[k].recorded] = Label(jumps[k].label)
                  /\ jumps[k].recorded <= jumps[k].at - 1

\* C20 witness: pass 2 has closed a loop nested in another loop
C20_Witness ==
    /\ pass = "Second"
    /\ \E k \in 1..Len(jumps) :
           /\ jumps[k].kind = "Loop"
           /\ jumps[k].pass = "Second"
           /\ jumps[k].depth_before > 0

\* a pass is about to lower the first statement of the program
PassStart ==
    /\ outcome = "running"
    /\ todo = Tasks(program)
    /\ instructions = <<>>

\* the branches and jumps to minted labels that pass 1 lowered
FirstJumps == SelectSeq(jumps, LAMBDA j : j.pass = "First")

\* C21 (label name synchronisation): loop_counter and if_counter are 0 when
\* a pass starts; the k-th branch or jump that pass 2 lowers for a Loop, If
\* or IfElse node names the label that the k-th one of pass 1 named; and
\* every label pass 2 looks up for such a node was recorded by pass 1.
C21_LabelNames ==
    /\ PassStart => (loop_counter = 0 /\ if_counter = 0)
    /\ \A k \in 1..Len(jumps) :
           jumps[k].pass = "Second" =>
              /\ k - Len(FirstJumps) \in 1..Len(FirstJumps)
              /\ jumps[k].kind = jumps[k - Len(FirstJumps)].kind
              /\ jumps[k].label = jumps[k - Len(FirstJumps)].label
              /\ jumps[k].label \in DOMAIN first_labels

\* C21 witness: pass 2 has lowered the second loop of a program
C21_Witness ==
    /\ pass = "Second"
    /\ \E k \in 1..Len(jumps) :
           jumps[k].pass = "Second" /\ jumps[k].label = "loop_1"

\* C22 (reset between passes): the step from pass 1 to pass 2 empties
\* instructions and comments and leaves labels, devices and constants as
\* they are, so that pass 2 starts with every label, alias and constant
\* that pass 1 recorded.
C22_ResetKeepsTables ==
    [][(pass = "First" /\ pass' = "Second") =>
          /\ instructions' = <<>>
          /\ comments' = EmptyMap
          /\ labels' = labels
          /\ devices' = devices
          /\ constants' = constants
          /\ PassStart'
      ]_vars

\* C22 witness: pass 2 starts after a pass 1 that emitted instructions and
\* recorded a label, an alias and a constant
C22_Witness ==
    /\ pass = "Second"
    /\ PassStart
    /\ first_len > 0
    /\ "main" \in DOMAIN labels
    /\ "sensor" \in DOMAIN devices
    /\ "K" \in DOMAIN constants

\* C23 (store and load address the same slot): when the emitted code runs,
\* the read of a Stack-located local that follows a store to the same local
\* with no other push, pop or move of sp in between reads the slot the store
\* wrote, and yields the stored value.
C23_StoreLoadSlot ==
    slot_io.read =>
        /\ slot_io.read_slot = slot_io.slot
        /\ slot_io.read_value = slot_io.value

\* C24 (slot of a Definition): right after a Definition has been lowered,
\* locals binds its name to Stack(-1), whatever rsp_offset is and in
\* whichever pass or function the Definition is.
C24_DefinitionSlot ==
    [][(Lowering("Definition") /\ outcome' = "running") =>
          locals'[Head(todo).statement.identifier] = StackLoc(-1)
      ]_vars

\* an i64 whose upper half is the sign extension of its lower half: the
\* values from -2^31 to 2^31 - 1
FitsI32(value) == value.hi = (IF value.lo < 0 THEN -1 ELSE 0)

\* C25 (integer constants are emitted unchanged): the lowering of a
\* Constant expression with an Integer value is the push of a Number::Int
\* of the same numeric value, for every 64-bit value; a Boolean lowers to
\* push 1 for true and push 0 for false.
C25_ConstantsUnchanged ==
    (outcome = "running" /\ todo # <<>> /\ Head(todo).k = "Statement") =>
        \A k \in 1..Len(LoweredExpressions(Head(todo).statement)) :
            LET expr == LoweredExpressions(Head(todo).statement)[k]
            IN expr.e = "Constant" =>
                  /\ Len(Emitted(expr)) = 2
                  /\ expr.value.t = "Integer" =>
                         /\ FitsI32(expr.value)
                         /\ Emitted(expr)[2] = Push(Num(expr.value.lo))
                  /\ expr.value.t = "Boolean" =>
                         Emitted(expr)[2] = Push(Num(expr.value.lo))

\* the steps of the traversal that pass 1 took
FirstScopes == SelectSeq(scopes, LAMBDA sc : sc.pass = "First")

\* C26 (pass 2 never raises UndefinedVariable): after every step of the
\* traversal in pass 2 the names in locals and in constants include the
\* names that were there after the same step in pass 1, and no compile ends
\* with UndefinedVariable in pass 2.
C26_NoUndefinedInPassTwo ==
    /\ \A k \in 1..Len(scopes) :
           scopes[k].pass = "Second" =>
              /\ k - Len(FirstScopes) \in 1..Len(FirstScopes)
              /\ scopes[k - Len(FirstScopes)].names \subseteq scopes[k].names
    /\ (pass = "Second" /\ outcome # "running") => error.kind # "UndefinedVariable"

\* C26 witness: pass 2 is at a point of the traversal where pass 1 knew a
\* name and pass 2 knows one more
C26_Witness ==
    /\ pass = "Second"
    /\ \E k \in 1..Len(scopes) :
           /\ scopes[k].pass = "Second"
           /\ k - Len(FirstScopes) \in 1..Len(FirstScopes)
           /\ scopes[k - Len(FirstScopes)].names # {}
           /\ scopes[k].names # scopes[k - Len(FirstScopes)].names

\* C27 (distinct locals get distinct slots): when the body of a Function
\* has been lowered, two different names that Definitions of the body
\* introduced are bound in locals to different locations.
C27_DistinctSlots ==
    Resuming("FunctionEpilogue") =>
        \A a, b \in DefinedNames(frames[Len(frames)].body) \cap DOMAIN locals :
            a # b => locals[a] # locals[b]

\* the Function handler whose body is being lowered: its epilogue is the
\* first one pending in todo, its frame the last Function frame
OpenEpilogue ==
    todo[CHOOSE i \in 1..Len(todo) :
            /\ todo[i].k = "FunctionEpilogue"
            /\ \A j \in 1..(i - 1) : todo[j].k # "FunctionEpilogue"]
OpenFunction ==
    frames[CHOOSE i \in 1..Len(frames) :
              /\ frames[i].k = "Function"
              /\ \A j \in (i + 1)..Len(frames) : frames[j].k # "Function"]

\* C28 (register parameters stay in their registers): while the body of a
\* Function is lowered, every parameter of index i < 4 that no Definition
\* of the body names is bound to Register(r_i), also when the body passes
\* it to a FunctionCall, and a read of it lowers to push r_i.
C28_ParameterRegister ==
    (outcome = "running" /\ \E i \in 1..Len(todo) : todo[i].k = "FunctionEpilogue") =>
        \A n \in 1..Len(OpenEpilogue.parameters) :
            LET parameter == OpenEpilogue.parameters[n]
            IN (n <= 4 /\ parameter \notin DefinedNames(OpenFunction.body)) =>
                  /\ parameter \in DOMAIN locals
                  /\ locals[parameter] = RegisterLoc(RegisterFromU8(n - 1))
                  /\ ReadLocation(locals[parameter]) = <<Push(Reg(RegisterFromU8(n - 1)))>>

\* the parameters of the Function whose body is being lowered
EnclosingParameters ==
    IF \E i \in 1..Len(todo) : todo[i].k = "FunctionEpilogue"
    THEN {OpenEpilogue.parameters[n] : n \in 1..Len(OpenEpilogue.parameters)}
    ELSE {}

\* the Identifier arguments of the FunctionCall about to be lowered that name
\* neither a named constant, nor a parameter, nor a local of a Definition
UndeclaredArguments ==
    LET arguments == Head(todo).statement.arguments
    IN {arguments[k].identifier :
            k \in {j \in 1..Len(arguments) : arguments[j].e = "Identifier"}}
       \ (DOMAIN constants \cup EnclosingParameters \cup DefinedNames(program))

\* C29 (undefined argument): lowering a FunctionCall with an Identifier
\* argument that names neither a named constant, nor a parameter, nor a
\* local introduced by a Definition ends the compile with UndefinedVariable
\* of such a name, at the top level and inside a function body.
C29_UndefinedArgument ==
    [][(Lowering("FunctionCall") /\ UndeclaredArguments # {}) =>
          \E name \in UndeclaredArguments : FailsWith(UndefinedVariable(name))
      ]_vars

\* C30 (scope model at the start of pass 2): when pass 2 starts, rsp_offset
\* is 0, locals, saved_registers and loops are empty and both label
\* counters are 0, as when pass 1 started.
C30_ScopeAtPassTwo ==
    (PassStart /\ pass = "Second") =>
        /\ rsp_offset = 0
        /\ locals = EmptyMap
        /\ saved_registers = <<>>
        /\ loops = <<>>
        /\ loop_counter = 0
        /\ if_counter = 0

====
